---- MODULE Spec2Model ----
(***************************************************************************)
(* Entitlement and synchronisation logic of the Syncup dashboard:          *)
(* purchase resolution against the WooCommerce gateway, the product-gated  *)
(* login, the wp_users upsert and the api_usage ledger kept in Supabase.   *)
(*                                                                         *)
(* Conventions.                                                            *)
(*  - Python's None and the integer 0 are both falsy; an id that is        *)
(*    "missing or 0" is the number 0 here, every other id is positive.     *)
(*  - A gateway call is answered in one of three ways: "ok" (status 200),  *)
(*    "non200" (any other status) or "exc" (the request raises).           *)
(*  - A store call either succeeds or raises; the set of store calls that  *)
(*    raise during one handler is an input of that handler.                *)
(*  - Money strings ("20.00") are tuples of characters; float() of such a  *)
(*    string is its value in hundredths.                                   *)
(***************************************************************************)
EXTENDS Integers, Sequences, FiniteSets, TLC

VARIABLES
    wp_config,   \* wordpress_auth.wp_config is available (not None)
    supabase,    \* wordpress_auth.supabase is available (not None)
    gw_orders,   \* gateway: completed orders of the customer with an email
    clock,       \* the store's now()
    wp_users,    \* Supabase table wp_users, rows in insertion order
    api_usage,   \* Supabase table api_usage, rows in insertion order
    session,     \* st.session_state
    wc_orders,   \* Supabase table wc_orders, rows in insertion order
    inflight,    \* overlapping sessions: the ledger call each has in flight
    last         \* the last call: its name, arguments, what it found, its result

vars == <<wp_config, supabase, gw_orders, clock, wp_users, api_usage, session,
          wc_orders, inflight, last>>

----------------------------------------------------------------------------
(* Bounds *)

MaxPid == 2          \* product ids of the small order lists are 0..MaxPid
MaxItems == 3        \* line items in one small order list
MaxBulk == 6         \* products in the longest purchase history
MaxClock == 2        \* the store clock runs 1..MaxClock
MaxQueries == 3      \* increments stop at this counter value
MaxUserRows == 2     \* rows in wp_users
MaxUsageRows == 3    \* rows in api_usage

DefaultLimit == 30   \* check_usage_limit(..., limit=30)

----------------------------------------------------------------------------
(* Sequences *)

Range(s) == {s[i] : i \in DOMAIN s}

RECURSIVE SeqSum(_)
SeqSum(s) == IF s = <<>> THEN 0 ELSE Head(s) + SeqSum(Tail(s))

----------------------------------------------------------------------------
(* The gateway's data *)

Emails == {"ann@x", "bob@x"}

\* Line-item totals as WooCommerce sends them: decimal strings.
T2000 == <<"2", "0", ".", "0", "0">>
T1500 == <<"1", "5", ".", "0", "0">>
Totals == {T2000, T1500}

LineItems == [product_id : 0..MaxPid, total : Totals]

\* Orders made of the line items s, a new order starting after each position
\* in cuts; order ids are 1, 2, ... in the order the gateway returns them.
OrderIndex(cuts, i) == 1 + Cardinality({c \in cuts : c < i})

GroupOrders(s, cuts) ==
    [j \in 1..(IF s = <<>> THEN 0 ELSE 1 + Cardinality(cuts)) |->
        LET mine == {i \in DOMAIN s : OrderIndex(cuts, i) = j}
            first == CHOOSE i \in mine : \A k \in mine : i <= k
        IN  [id |-> j,
             line_items |-> [m \in 1..Cardinality(mine) |-> s[first + m - 1]]]]

\* A long purchase history: one completed order with products 1..n.
BulkOrders(n) ==
    IF n = 0 THEN <<>>
    ELSE <<[id |-> 1, line_items |-> [i \in 1..n |-> [product_id |-> i, total |-> T2000]]]>>

\* The spec's scenario: product 1 in two orders, product 2 once.
ScenarioOrders ==
    << [id |-> 1, line_items |-> <<[product_id |-> 1, total |-> T2000]>>],
       [id |-> 2, line_items |-> <<[product_id |-> 1, total |-> T2000],
                                   [product_id |-> 2, total |-> T1500]>>] >>

GatewayModes == {"ok", "non200", "exc"}

\* Answers to the two queries of get_user_purchased_products; a query that
\* is never sent has no answer and is listed as "ok".
\* The resolver is called for the customer whose orders vary.
ResolverEmails == {"ann@x"}

\* The purchase lookup is also called for an email no customer record matches.
LookupEmails == ResolverEmails \cup {"nobody@x"}

ResolverModes == {m \in GatewayModes \X GatewayModes : m[1] # "ok" => m[2] = "ok"}

\* customers?email=...: WooCommerce customers are site users, the customer id
\* is the user id.  Every email of Emails has a customer record.
GwCustomerId(email) == IF email = "ann@x" THEN 1 ELSE 2

GwCustomers(email) ==
    IF email \in Emails THEN <<[id |-> GwCustomerId(email), email |-> email]>> ELSE <<>>

----------------------------------------------------------------------------
(* get_user_purchased_products *)

\* The body of the inner loop: acc is <<purchased_products, product_ids>>.
AddLineItemDup(acc, order, item) ==
    <<Append(acc[1], [product_id |-> item.product_id,
                      total |-> item.total,
                      order_id |-> order.id]),
      acc[2] \cup {item.product_id}>>

AddLineItemKeepLast(acc, order, item) ==
    LET product_id == item.product_id
        entry == [product_id |-> product_id, total |-> item.total, order_id |-> order.id]
    IN  IF product_id = 0 THEN acc
        ELSE IF product_id \in acc[2]
        THEN <<[i \in DOMAIN acc[1] |->
                   IF acc[1][i].product_id = product_id THEN entry ELSE acc[1][i]],
               acc[2]>>
        ELSE <<Append(acc[1], entry), acc[2] \cup {product_id}>>

AddLineItem(acc, order, item) ==
    LET product_id == item.product_id
    IN  IF product_id # 0 /\ product_id \notin acc[2]
        THEN <<Append(acc[1], [product_id |-> product_id,
                               total |-> item.total,
                               order_id |-> order.id]),
               acc[2] \cup {product_id}>>
        ELSE acc

RECURSIVE AddLineItems(_, _, _)
AddLineItems(acc, order, items) ==
    IF items = <<>> THEN acc
    ELSE AddLineItems(AddLineItem(acc, order, Head(items)), order, Tail(items))

RECURSIVE AddOrders(_, _)
AddOrders(acc, orders) ==
    IF orders = <<>> THEN acc
    ELSE AddOrders(AddLineItems(acc, Head(orders), Head(orders).line_items), Tail(orders))

ExtractProducts(orders) == AddOrders(<<<<>>, {}>>, orders)[1]

\* cmode, omode: how the gateway answers the customers and the orders query.
\* The body of the try block: it returns a list, or a request raises.
ResolverBody(email, cmode, omode) ==
    IF cmode = "exc" THEN [raised |-> TRUE, value |-> <<>>]
    ELSE IF cmode # "ok" \/ GwCustomers(email) = <<>> THEN [raised |-> FALSE, value |-> <<>>]
    ELSE IF omode = "exc" THEN [raised |-> TRUE, value |-> <<>>]
    ELSE IF omode # "ok" THEN [raised |-> FALSE, value |-> <<>>]
    ELSE [raised |-> FALSE, value |-> ExtractProducts(gw_orders[email])]

ResolverUncaught(r) == r

\* `except Exception: ... return []`
ResolverCaught(r) == IF r.raised THEN [raised |-> FALSE, value |-> <<>>] ELSE r

get_user_purchased_products_outcome(email, cmode, omode) ==
    IF ~wp_config THEN [raised |-> FALSE, value |-> <<>>]
    ELSE ResolverCaught(ResolverBody(email, cmode, omode))

get_user_purchased_products(email, cmode, omode) ==
    get_user_purchased_products_outcome(email, cmode, omode).value

----------------------------------------------------------------------------
(* check_product_access *)

\* required_product_ids: None (is_none), or a list of ids (kept ascending
\* here, the code only tests membership).
RequiredLists ==
    {[is_none |-> TRUE, ids |-> <<>>]} \cup
    {[is_none |-> FALSE, ids |-> s] :
        s \in {t \in UNION {[1..n -> 0..MaxPid] : n \in 0..(MaxPid + 1)} :
                  \A i \in DOMAIN t : \A j \in DOMAIN t : i < j => t[i] < t[j]}}

\* `not required_product_ids`
NotRequiredNoneOnly(required) == required.is_none

NotRequired(required) == required.is_none \/ required.ids = <<>>

check_product_access(email, required_product_ids, cmode, omode) ==
    LET purchased_products == get_user_purchased_products(email, cmode, omode)
        purchased_ids == [i \in DOMAIN purchased_products |-> purchased_products[i].product_id]
    IN  IF purchased_products = <<>> THEN FALSE
        ELSE IF NotRequired(required_product_ids) THEN TRUE
        ELSE \E i \in DOMAIN required_product_ids.ids :
                required_product_ids.ids[i] \in Range(purchased_ids)

----------------------------------------------------------------------------
(* get_user_product_access_level *)

DigitValue(c) ==
    CASE c = "0" -> 0 [] c = "1" -> 1 [] c = "2" -> 2 [] c = "3" -> 3 [] c = "4" -> 4
      [] c = "5" -> 5 [] c = "6" -> 6 [] c = "7" -> 7 [] c = "8" -> 8 [] c = "9" -> 9

RECURSIVE DigitsValue(_, _)
DigitsValue(s, acc) ==
    IF s = <<>> THEN acc ELSE DigitsValue(Tail(s), 10 * acc + DigitValue(Head(s)))

\* float(s) for a decimal string with at most two decimals, in hundredths.
Float(s) ==
    LET dots == {i \in DOMAIN s : s[i] = "."}
        dot == IF dots = {} THEN Len(s) + 1 ELSE CHOOSE i \in dots : TRUE
        whole == SubSeq(s, 1, dot - 1)
        frac == SubSeq(s, dot + 1, Len(s))
        frac2 == IF Len(frac) = 0 THEN <<"0", "0">>
                 ELSE IF Len(frac) = 1 THEN frac \o <<"0">> ELSE frac
    IN  100 * DigitsValue(whole, 0) + DigitsValue(frac2, 0)

Permissions(level) ==
    CASE level = "basic" -> {"property_search"}
      [] level = "premium" -> {"property_search", "analytics", "export"}
      [] level = "enterprise" -> {"property_search", "analytics", "export", "api_access"}
      [] OTHER -> {}

AccessLevelShifted(product_count) ==
    IF product_count >= 5 THEN "enterprise"
    ELSE IF product_count > 3 THEN "premium"
    ELSE IF product_count >= 1 THEN "basic"
    ELSE "none"

AccessLevel(product_count) ==
    IF product_count >= 5 THEN "enterprise"
    ELSE IF product_count >= 3 THEN "premium"
    ELSE IF product_count >= 1 THEN "basic"
    ELSE "none"

get_user_product_access_level(email, cmode, omode) ==
    LET purchased_products == get_user_purchased_products(email, cmode, omode)
        product_count == Len(purchased_products)
        total_spent == SeqSum([i \in DOMAIN purchased_products |->
                                  Float(purchased_products[i].total)])
        level == AccessLevel(product_count)
    IN  IF purchased_products = <<>>
        THEN [access_level |-> "none", products |-> <<>>, permissions |-> {}]
        ELSE [access_level |-> level,
              products |-> purchased_products,
              product_count |-> product_count,
              total_spent |-> total_spent,
              permissions |-> Permissions(level)]

----------------------------------------------------------------------------
(* The store *)

\* Store calls that may raise during a handler.
\*   usage_read    get_user_usage's select            database.py:34
\*   usage_select  initialize_user_usage's select     database.py:12
\*   usage_insert  the insert into api_usage          database.py:16, wordpress_auth.py:161
\*   usage_update  increment_usage's update           database.py:52
\*   users_select  the lookup in wp_users             woocommerce_sync.py:249-253, wordpress_auth.py:116
\*   users_write   the update of or insert into wp_users
NoTime == 0     \* a timestamp column that was never written (NULL)

\* st.session_state.get('current_time', 'now()'): nothing sets current_time,
\* the store evaluates 'now()'.
Now == clock

\* hash(email) of auth.py:19 and woocommerce_sync.py:270.
Hash(email) == IF email = "ann@x" THEN 7 ELSE 8

\* Rows of table t whose column col equals v, as ascending positions.
Matching(t, col, v) == {i \in DOMAIN t : t[i][col] = v}

RowsAt(t, idx) ==
    LET RECURSIVE Pick(_)
        Pick(i) == IF i > Len(t) THEN <<>>
                   ELSE (IF i \in idx THEN <<t[i]>> ELSE <<>>) \o Pick(i + 1)
    IN  Pick(1)

UsageRow(wp_user_id, email) ==
    [wp_user_id |-> wp_user_id, email |-> email, queries |-> 0,
     last_query |-> NoTime, created_at |-> Now]

----------------------------------------------------------------------------
(* database.py: the usage ledger.  Each operator yields the call's result, *)
(* the table it leaves and the writes it issued.                           *)

initialize_user_usage(usage, wp_user_id, email, F) ==
    IF ~supabase THEN [ret |-> FALSE, usage |-> usage, writes |-> <<>>]
    ELSE IF "usage_select" \in F THEN [ret |-> FALSE, usage |-> usage, writes |-> <<>>]
    ELSE IF Matching(usage, "wp_user_id", wp_user_id) = {}
         THEN IF "usage_insert" \in F
              THEN [ret |-> FALSE, usage |-> usage, writes |-> <<"api_usage.insert">>]
              ELSE [ret |-> TRUE, usage |-> Append(usage, UsageRow(wp_user_id, email)),
                    writes |-> <<"api_usage.insert">>]
    ELSE [ret |-> TRUE, usage |-> usage, writes |-> <<>>]

\* pick: the position of the row the select lists first (response.data[0]);
\* the query states no order, so with several rows for a key any may lead.
get_user_usage_no_create(usage, wp_user_id, email, F, pick) ==
    IF ~supabase THEN [ret |-> 0, usage |-> usage, writes |-> <<>>]
    ELSE IF "usage_read" \in F THEN [ret |-> 0, usage |-> usage, writes |-> <<>>]
    ELSE IF Matching(usage, "wp_user_id", wp_user_id) # {}
         THEN [ret |-> usage[pick].queries, usage |-> usage, writes |-> <<>>]
    ELSE [ret |-> 0, usage |-> usage, writes |-> <<>>]

get_user_usage(usage, wp_user_id, email, F, pick) ==
    IF ~supabase THEN [ret |-> 0, usage |-> usage, writes |-> <<>>]
    ELSE IF "usage_read" \in F THEN [ret |-> 0, usage |-> usage, writes |-> <<>>]
    ELSE IF Matching(usage, "wp_user_id", wp_user_id) # {}
         THEN [ret |-> usage[pick].queries, usage |-> usage, writes |-> <<>>]
    ELSE LET init == initialize_user_usage(usage, wp_user_id, email, F)
         IN  [ret |-> 0, usage |-> init.usage, writes |-> init.writes]

NextCountSame(current) == current

NextCount(current) == current + 1

\* An update without the filter on wp_user_id.
UpdateQueriesAll(usage, wp_user_id, current) ==
    [i \in DOMAIN usage |->
        [usage[i] EXCEPT !.queries = NextCount(current), !.last_query = Now]]

\* An update that adds one to the counter each row holds.
UpdateQueriesInPlace(usage, wp_user_id, current) ==
    [i \in DOMAIN usage |->
        IF i \in Matching(usage, "wp_user_id", wp_user_id)
        THEN [usage[i] EXCEPT !.queries = usage[i].queries + 1, !.last_query = Now]
        ELSE usage[i]]

\* update({"queries": current + 1, "last_query": ...}).eq("wp_user_id", ...)
UpdateQueries(usage, wp_user_id, current) ==
    [i \in DOMAIN usage |->
        IF i \in Matching(usage, "wp_user_id", wp_user_id)
        THEN [usage[i] EXCEPT !.queries = NextCount(current), !.last_query = Now]
        ELSE usage[i]]

increment_usage(usage, wp_user_id, email, F, pick) ==
    IF ~supabase THEN [ret |-> FALSE, usage |-> usage, writes |-> <<>>]
    ELSE LET got == get_user_usage(usage, wp_user_id, email, F, pick)
             current == got.ret
         IN  IF "usage_update" \in F
             THEN [ret |-> FALSE, usage |-> got.usage,
                   writes |-> got.writes \o <<"api_usage.update">>]
             ELSE [ret |-> TRUE,
                   usage |-> UpdateQueries(got.usage, wp_user_id, current),
                   writes |-> got.writes \o <<"api_usage.update">>]

BelowOrAt(current_usage, limit) == current_usage <= limit

Below(current_usage, limit) == current_usage < limit

\* limit: <<>> when the caller leaves it out (`limit: int = 30`), else <<n>>.
LimitOf(limit) == IF limit = <<>> THEN DefaultLimit ELSE limit[1]

check_usage_limit(usage, wp_user_id, email, limit, F, pick) ==
    LET got == get_user_usage(usage, wp_user_id, email, F, pick)
    IN  [ret |-> Below(got.ret, LimitOf(limit)), usage |-> got.usage,
         writes |-> got.writes]

----------------------------------------------------------------------------
(* wordpress_auth.py: the WordPress-only synchroniser *)

initialize_user_usage_tracking(usage, wp_user_id, email, F) ==
    IF ~supabase THEN [usage |-> usage, writes |-> <<>>]
    ELSE IF "usage_insert" \in F
         THEN [usage |-> usage, writes |-> <<"api_usage.insert">>]
         ELSE [usage |-> Append(usage, UsageRow(wp_user_id, email)),
               writes |-> <<"api_usage.insert">>]

\* user_data: wp_user_id, email, wp_token; last_login is the time of the call.
\* Lines 120-129: update(...).eq("wp_user_id", ...).
WpUpdateUser(users, user_data) ==
    [i \in DOMAIN users |->
        IF i \in Matching(users, "wp_user_id", user_data.wp_user_id)
        THEN [users[i] EXCEPT !.email = user_data.email,
                              !.wp_token = user_data.wp_token,
                              !.last_login = Now]
        ELSE users[i]]

\* Lines 132-143: insert(...).
WpInsertUser(users, user_data) ==
    Append(users, [wp_user_id |-> user_data.wp_user_id,
                   wc_customer_id |-> 0,
                   email |-> user_data.email,
                   wp_token |-> user_data.wp_token,
                   purchased_products |-> <<>>,
                   product_access |-> FALSE,
                   last_login |-> Now,
                   created_at |-> Now])

sync_wp_user_to_supabase(users, usage, user_data, F) ==
    LET existing_user == Matching(users, "wp_user_id", user_data.wp_user_id)
        updated == WpUpdateUser(users, user_data)
        inserted == WpInsertUser(users, user_data)
        write == IF existing_user # {} THEN "wp_users.update" ELSE "wp_users.insert"
        track == initialize_user_usage_tracking(usage, user_data.wp_user_id, user_data.email, F)
    IN  IF ~supabase THEN [ret |-> FALSE, users |-> users, usage |-> usage, writes |-> <<>>]
        ELSE IF "users_select" \in F
             THEN [ret |-> FALSE, users |-> users, usage |-> usage, writes |-> <<>>]
        ELSE IF "users_write" \in F
             THEN [ret |-> FALSE, users |-> users, usage |-> usage, writes |-> <<write>>]
        ELSE IF existing_user # {}
             THEN [ret |-> TRUE, users |-> updated, usage |-> usage, writes |-> <<write>>]
        ELSE [ret |-> TRUE, users |-> inserted, usage |-> track.usage,
              writes |-> <<write>> \o track.writes]

----------------------------------------------------------------------------
(* woocommerce_sync.py: sync_woo_product_user *)

\* user_data.get("wp_user_id") / .get("wc_customer_id") are 0 when the record
\* has no such entry.
LookupColumnCustomerFirst(user_data) ==
    IF user_data.wc_customer_id # 0 THEN "wc_customer_id"
    ELSE IF user_data.wp_user_id # 0 THEN "wp_user_id"
    ELSE "email"

LookupColumn(user_data) ==
    IF user_data.wp_user_id # 0 THEN "wp_user_id"
    ELSE IF user_data.wc_customer_id # 0 THEN "wc_customer_id"
    ELSE "email"

\* user_data.get("wp_user_id") or user_data.get("wc_customer_id") or hash(email)
UserId(user_data) ==
    IF user_data.wp_user_id # 0 THEN user_data.wp_user_id
    ELSE IF user_data.wc_customer_id # 0 THEN user_data.wc_customer_id
    ELSE Hash(user_data.email)

SupabaseData(user_data) ==
    [wp_user_id |-> user_data.wp_user_id,
     wc_customer_id |-> user_data.wc_customer_id,
     email |-> user_data.email,
     wp_token |-> user_data.wp_token,
     purchased_products |-> user_data.purchased_products,
     product_access |-> user_data.product_access,
     last_login |-> Now]

WithCreatedAt(data, t) ==
    [wp_user_id |-> data.wp_user_id,
     wc_customer_id |-> data.wc_customer_id,
     email |-> data.email,
     wp_token |-> data.wp_token,
     purchased_products |-> data.purchased_products,
     product_access |-> data.product_access,
     last_login |-> data.last_login,
     created_at |-> t]

\* Lines 257-262: update(supabase_data).eq(column, value).
UpdateUser(users, user_data) ==
    LET col == LookupColumn(user_data)
    IN  [i \in DOMAIN users |->
            IF i \in Matching(users, col, user_data[col])
            THEN WithCreatedAt(SupabaseData(user_data), users[i].created_at)
            ELSE users[i]]

\* Lines 265-266: insert(supabase_data) with created_at.
InsertUser(users, user_data) == Append(users, WithCreatedAt(SupabaseData(user_data), Now))

\* Lines 255-266: the table after the write.
Upsert(users, user_data) ==
    LET col == LookupColumn(user_data)
        existing == Matching(users, col, user_data[col])
    IN  IF existing # {} THEN UpdateUser(users, user_data)
        ELSE InsertUser(users, user_data)

sync_woo_product_user(users, usage, user_data, F) ==
    LET col == LookupColumn(user_data)
        existing == Matching(users, col, user_data[col])
        write == IF existing # {} THEN "wp_users.update" ELSE "wp_users.insert"
        init == initialize_user_usage(usage, UserId(user_data), user_data.email, F)
    IN  IF ~supabase THEN [ret |-> FALSE, users |-> users, usage |-> usage, writes |-> <<>>]
        ELSE IF "users_select" \in F
             THEN [ret |-> FALSE, users |-> users, usage |-> usage, writes |-> <<>>]
        ELSE IF "users_write" \in F
             THEN [ret |-> FALSE, users |-> users, usage |-> usage, writes |-> <<write>>]
        ELSE [ret |-> TRUE, users |-> Upsert(users, user_data), usage |-> init.usage,
              writes |-> <<write>> \o init.writes]

----------------------------------------------------------------------------
(* woocommerce_sync.py: the product-gated login *)

Passwords == {"right", "wrong"}

\* The site account of an email: its user id and the token issued to it.
GwWpUserId(email) == GwCustomerId(email)

Token(email) == IF email = "ann@x" THEN "jwt-ann" ELSE "jwt-bob"

NoToken == "None"

\* Answers of the gateway during one login: token request, users/me, the two
\* queries of get_user_purchased_products, woo_customer_login's own customers
\* query.
\* A request that is never sent has no answer: it is listed as "ok".
LoginModes ==
    {M \in [token : GatewayModes, me : GatewayModes, customers : GatewayModes,
            orders : GatewayModes, customer : GatewayModes] :
        /\ M.token = "exc" => M.me = "ok"
        /\ M.token = "exc" \/ M.me # "ok" => M.customers = "ok"
        /\ M.customers # "ok" => M.orders = "ok"
        /\ M.customers # "ok" \/ M.orders # "ok" => M.customer = "ok"}

TokenIssuedAnyPassword(password, M) == M.token = "ok"

\* Status 200 of the token request: the gateway answers and accepts the password.
TokenIssued(password, M) == M.token = "ok" /\ password = "right"

Denied(users, usage, path, purchased) ==
    [ret |-> <<>>, users |-> users, usage |-> usage, writes |-> <<>>,
     path |-> path, purchased |-> purchased, sync |-> <<>>]

\* `if not purchased_products:` of both login paths.
NoPurchasesNever(purchased_products) == FALSE

NoPurchases(purchased_products) == purchased_products = <<>>

\* `if sync_result: return user_data`, else None.
AfterSyncAlways(sync_result, user_data) == <<user_data>>

AfterSync(sync_result, user_data) == IF sync_result THEN <<user_data>> ELSE <<>>

Synced(user_data, users, usage, F, path) ==
    LET sync_result == sync_woo_product_user(users, usage, user_data, F)
    IN  [ret |-> AfterSync(sync_result.ret, user_data),
         users |-> sync_result.users, usage |-> sync_result.usage,
         writes |-> sync_result.writes,
         path |-> path, purchased |-> user_data.purchased_products,
         sync |-> <<sync_result.ret>>]

\* A customer-only login that lets in the account's password only.
woo_customer_login_checked(users, usage, email, password, M, F) ==
    LET purchased_products == get_user_purchased_products(email, M.customers, M.orders)
        user_data == [wp_user_id |-> 0,
                      wc_customer_id |-> GwCustomers(email)[1].id,
                      email |-> email,
                      wp_token |-> NoToken,
                      purchased_products |-> purchased_products,
                      product_access |-> TRUE]
    IN  IF ~wp_config \/ password # "right" THEN Denied(users, usage, "customer", <<>>)
        ELSE IF NoPurchases(purchased_products) THEN Denied(users, usage, "customer", <<>>)
        ELSE IF M.customer = "ok" /\ GwCustomers(email) # <<>>
             THEN Synced(user_data, users, usage, F, "customer")
        ELSE Denied(users, usage, "customer", purchased_products)

woo_customer_login(users, usage, email, password, M, F) ==
    LET purchased_products == get_user_purchased_products(email, M.customers, M.orders)
        user_data == [wp_user_id |-> 0,
                      wc_customer_id |-> GwCustomers(email)[1].id,
                      email |-> email,
                      wp_token |-> NoToken,
                      purchased_products |-> purchased_products,
                      product_access |-> TRUE]
    IN  IF ~wp_config THEN Denied(users, usage, "customer", <<>>)
        ELSE IF NoPurchases(purchased_products) THEN Denied(users, usage, "customer", <<>>)
        ELSE IF M.customer = "ok" /\ GwCustomers(email) # <<>>
             THEN Synced(user_data, users, usage, F, "customer")
        ELSE Denied(users, usage, "customer", purchased_products)

\* users/me carries the account's id; its email is the login email.
woo_product_login(users, usage, email, password, M, F) ==
    LET purchased_products == get_user_purchased_products(email, M.customers, M.orders)
        user_data == [wp_user_id |-> GwWpUserId(email),
                      wc_customer_id |-> 0,
                      email |-> email,
                      wp_token |-> Token(email),
                      purchased_products |-> purchased_products,
                      product_access |-> TRUE]
    IN  IF ~wp_config THEN Denied(users, usage, "none", <<>>)
        ELSE IF M.token = "exc" THEN Denied(users, usage, "none", <<>>)
        ELSE IF TokenIssued(password, M)
             THEN IF M.me # "ok" THEN Denied(users, usage, "token", <<>>)
                  ELSE IF NoPurchases(purchased_products) THEN Denied(users, usage, "token", <<>>)
                  ELSE Synced(user_data, users, usage, F, "token")
        ELSE woo_customer_login(users, usage, email, password, M, F)

----------------------------------------------------------------------------
(* auth.py: session state *)

SessionKeys == {"user", "access_token"}

\* st.session_state: the keys that are set, the user (<<>> is None, else
\* <<user>>) and the access token ("None" is None).
EmptySession == [keys |-> {}, user |-> <<>>, access_token |-> NoToken, wp_token |-> NoToken]

initialize_auth_state_reset(ss) ==
    [ss EXCEPT !.keys = ss.keys \cup SessionKeys, !.user = <<>>, !.access_token = NoToken]

\* A key that is not in the session holds None once it is set.
initialize_auth_state(ss) ==
    [ss EXCEPT !.keys = ss.keys \cup SessionKeys,
               !.user = IF "user" \in ss.keys THEN ss.user ELSE <<>>,
               !.access_token = IF "access_token" \in ss.keys THEN ss.access_token
                                ELSE NoToken]

SessionUser(user_data, email) ==
    [id |-> IF user_data.wp_user_id # 0 THEN user_data.wp_user_id
            ELSE IF user_data.wc_customer_id # 0 THEN user_data.wc_customer_id
            ELSE Hash(email),
     email |-> user_data.email,
     purchased_products |-> user_data.purchased_products,
     product_access |-> user_data.product_access]

\* The session after login, given what woo_product_login returned.
login(ss, email, ret) ==
    IF ret # <<>>
    THEN [keys |-> ss.keys \cup SessionKeys,
          user |-> <<SessionUser(ret[1], email)>>,
          access_token |-> IF ret[1].wp_token # NoToken THEN ret[1].wp_token
                           ELSE "woo_access",
          wp_token |-> ss.wp_token]
    ELSE ss

\* The specification's teardown: every identity and token field is cleared.
teardown(ss) ==
    [keys |-> ss.keys \cup SessionKeys, user |-> <<>>, access_token |-> NoToken,
     wp_token |-> NoToken]

\* user and access_token are set to None; nothing else is touched.
logout(ss) ==
    [keys |-> ss.keys \cup SessionKeys, user |-> <<>>, access_token |-> NoToken,
     wp_token |-> ss.wp_token]

----------------------------------------------------------------------------
(* wordpress_auth.py: the WordPress-only login *)

\* The result of wp_jwt_login: what it returns (<<>> is None), the tables and
\* the session it leaves.
WpDenied(ss, users, usage) ==
    [ret |-> <<>>, users |-> users, usage |-> usage, session |-> ss]

\* M: the answers to the token request and to users/me.
wp_jwt_login(ss, users, usage, username, password, M, F) ==
    LET user_data == [wp_user_id |-> GwWpUserId(username), email |-> username,
                      wp_token |-> Token(username)]
        sync_result == sync_wp_user_to_supabase(users, usage, user_data, F)
    IN  IF ~wp_config THEN WpDenied(ss, users, usage)
        ELSE IF M.token = "exc" THEN WpDenied(ss, users, usage)
        ELSE IF TokenIssued(password, M)
             THEN IF M.me # "ok" THEN WpDenied(ss, users, usage)
                  ELSE IF sync_result.ret
                       THEN [ret |-> <<user_data>>,
                             users |-> sync_result.users, usage |-> sync_result.usage,
                             session |-> [keys |-> ss.keys \cup {"user", "wp_token"},
                                          user |-> <<[id |-> user_data.wp_user_id,
                                                      email |-> user_data.email,
                                                      wp_token |-> user_data.wp_token]>>,
                                          access_token |-> ss.access_token,
                                          wp_token |-> user_data.wp_token]]
                       ELSE [ret |-> <<>>, users |-> sync_result.users,
                             usage |-> sync_result.usage, session |-> ss]
        ELSE WpDenied(ss, users, usage)

----------------------------------------------------------------------------
(* Token validation and the authentication check *)

\* vmode: how the gateway answers the validation request.
validate_wp_token_fail_open(token, vmode) ==
    IF ~wp_config \/ token = NoToken THEN FALSE
    ELSE vmode # "non200"

validate_wp_token(token, vmode) ==
    IF ~wp_config \/ token = NoToken THEN FALSE
    ELSE IF vmode = "exc" THEN FALSE
    ELSE vmode = "ok"

\* The token a session holds: the access token, else the WordPress token.
SessionToken(ss) == IF ss.access_token # NoToken THEN ss.access_token ELSE ss.wp_token

\* check_authentication is imported by app.py from utils.auth, which does not
\* define it; it is taken from the specification: a session without identity
\* is not authenticated; one whose token the gateway does not validate is
\* cleared (identity and tokens) and is not authenticated.
check_authentication(ss, vmode) ==
    IF ss.user = <<>> THEN [ret |-> FALSE, session |-> ss]
    ELSE IF validate_wp_token(SessionToken(ss), vmode)
         THEN [ret |-> TRUE, session |-> ss]
    ELSE [ret |-> FALSE, session |-> teardown(ss)]

----------------------------------------------------------------------------
(* Calls *)

NoCall == [op |-> "none"]

Gateway == <<wp_config, supabase, gw_orders>>

Store == <<clock, wp_users, api_usage, session>>

\* What the calls of one dashboard session leave alone: the order mirror and
\* the calls other sessions have in flight.
Aside == <<wc_orders, inflight>>

\* The overlapping browser sessions, none of them inside a ledger call.
Sessions == {"s1", "s2"}

NoCalls == [s \in Sessions |-> [pc |-> "idle"]]

Fits == Len(wp_users') <= MaxUserRows /\ Len(api_usage') <= MaxUsageRows

\* The store calls that raise during one handler.  A call that is never made
\* cannot raise, and every handler but increment_usage stops making store
\* calls at the first one that raises: at most one call raises, or two in
\* increment_usage (one inside get_user_usage, then the update).
OneOf(calls) == {{}} \cup {{c} : c \in calls}

SyncFaults == OneOf({"users_select", "users_write", "usage_select", "usage_insert"})

ReadFaults == OneOf({"usage_read", "usage_select", "usage_insert"})

IncrementFaults == ReadFaults \cup {F \cup {"usage_update"} : F \in ReadFaults}

\* Time passes in the store.
Tick ==
    /\ clock < MaxClock
    /\ clock' = clock + 1
    /\ UNCHANGED <<Gateway, Aside, wp_users, api_usage, session, last>>

\* app.py:20, on every run of the script.
Do_initialize_auth_state ==
    /\ session' = initialize_auth_state(session)
    /\ last' = [op |-> "initialize_auth_state", session_before |-> session]
    /\ UNCHANGED <<Gateway, Aside, clock, wp_users, api_usage>>

\* The gateway's answers and the store's faults of one login: the store is
\* reached only when no answered request has failed.
LoginInputs ==
    {<<M, F>> \in LoginModes \X SyncFaults :
        F # {} => M.me = "ok" /\ M.customers = "ok" /\ M.orders = "ok" /\ M.customer = "ok"}

\* A login whose requests are all answered, the token request with 200 or
\* with another status, and whose store calls all succeed.
AnsweredLoginInputs ==
    {in \in LoginInputs :
        /\ in[1].token # "exc"
        /\ in[1].me = "ok" /\ in[1].customers = "ok"
        /\ in[1].orders = "ok" /\ in[1].customer = "ok"
        /\ in[2] = {}}

\* login(email, password) with the gateway answers and store faults in.
LoginStep(email, password, in) ==
    \E r \in {woo_product_login(wp_users, api_usage, email, password, in[1], in[2])} :
        /\ wp_users' = r.users
        /\ api_usage' = r.usage
        /\ session' = login(session, email, r.ret)
        /\ last' = [op |-> "login", email |-> email, password |-> password,
                    modes |-> in[1], faults |-> in[2], ret |-> r.ret, path |-> r.path,
                    purchased |-> r.purchased, sync |-> r.sync,
                    writes |-> r.writes, session_before |-> session,
                    users_before |-> wp_users, usage_before |-> api_usage]

\* show_auth_page: the form is shown to a session without a user.
Do_login ==
    /\ "user" \in session.keys
    /\ session.user = <<>>
    /\ \E email \in Emails, password \in Passwords, in \in LoginInputs :
          LoginStep(email, password, in)
    /\ UNCHANGED <<Gateway, Aside, clock>>
    /\ Fits

Do_login_answered ==
    /\ "user" \in session.keys
    /\ session.user = <<>>
    /\ \E email \in Emails, password \in Passwords, in \in AnsweredLoginInputs :
          LoginStep(email, password, in)
    /\ UNCHANGED <<Gateway, Aside, clock>>
    /\ Fits

\* The answers the gateway can give when asked to validate a token: only a
\* token it issued can be found valid.
ValidateModes(token) ==
    IF token \in {Token(e) : e \in Emails} THEN GatewayModes ELSE {"non200", "exc"}

\* app.py:28, on every run of the script.
Do_check_authentication ==
    /\ "user" \in session.keys
    /\ \E vmode \in ValidateModes(SessionToken(session)) :
          \E r \in {check_authentication(session, vmode)} :
              /\ session' = r.session
              /\ last' = [op |-> "check_authentication", vmode |-> vmode, ret |-> r.ret,
                          session_before |-> session]
    /\ UNCHANGED <<Gateway, Aside, clock, wp_users, api_usage>>

\* The WordPress-only login form, shown to a session without a user.
WpLoginModes ==
    {M \in [token : GatewayModes, me : GatewayModes] : M.token # "ok" => M.me = "ok"}

\* The account that also signs in through the WordPress-only form.
WpLoginEmails == {"ann@x"}

Do_wp_jwt_login ==
    /\ "user" \in session.keys
    /\ session.user = <<>>
    /\ \E email \in WpLoginEmails, password \in Passwords, M \in WpLoginModes,
          F \in OneOf({"users_select", "users_write", "usage_insert"}) :
          \E r \in {wp_jwt_login(session, wp_users, api_usage, email, password, M, F)} :
              /\ wp_users' = r.users
              /\ api_usage' = r.usage
              /\ session' = r.session
              /\ last' = [op |-> "wp_jwt_login", email |-> email, password |-> password,
                          modes |-> M, ret |-> r.ret, session_before |-> session]
    /\ UNCHANGED <<Gateway, Aside, clock>>
    /\ Fits

\* show_user_info: the logout button is shown to a session with a user.
Do_logout ==
    /\ session.user # <<>>
    /\ session' = logout(session)
    /\ last' = [op |-> "logout", session_before |-> session]
    /\ UNCHANGED <<Gateway, Aside, clock, wp_users, api_usage>>

\* The rows a select on api_usage may list first.
Picks(wp_user_id) ==
    IF Matching(api_usage, "wp_user_id", wp_user_id) = {} THEN {0}
    ELSE Matching(api_usage, "wp_user_id", wp_user_id)

\* The callers pass an identity's ledger key together with its email.
Identities == {<<GwCustomerId(e), e>> : e \in Emails}

\* The ledger rows of a key, in table order.
UsageOf(wp_user_id) == RowsAt(api_usage, Matching(api_usage, "wp_user_id", wp_user_id))

Do_initialize_user_usage ==
    /\ \E id \in Identities, F \in OneOf({"usage_select", "usage_insert"}) :
          \E r \in {initialize_user_usage(api_usage, id[1], id[2], F)} :
              /\ api_usage' = r.usage
              /\ last' = [op |-> "initialize_user_usage", key |-> id[1], email |-> id[2],
                          faults |-> F, ret |-> r.ret, before |-> UsageOf(id[1])]
    /\ UNCHANGED <<Gateway, Aside, clock, wp_users, session>>
    /\ Fits

Do_get_user_usage ==
    /\ \E id \in Identities, F \in ReadFaults :
       \E pick \in Picks(id[1]) :
          \E r \in {get_user_usage(api_usage, id[1], id[2], F, pick)} :
              /\ api_usage' = r.usage
              /\ last' = [op |-> "get_user_usage", key |-> id[1], email |-> id[2],
                          faults |-> F, ret |-> r.ret, before |-> UsageOf(id[1]),
                          again |-> /\ last.op = "get_user_usage"
                                    /\ last.key = id[1]
                                    /\ last.faults = {}
                                    /\ last.before = <<>>
                                    /\ supabase]
    /\ UNCHANGED <<Gateway, Aside, clock, wp_users, session>>
    /\ Fits

Do_increment_usage ==
    /\ \E id \in Identities, F \in IncrementFaults :
       \E pick \in Picks(id[1]) :
          \E r \in {increment_usage(api_usage, id[1], id[2], F, pick)} :
              /\ \A i \in DOMAIN r.usage : r.usage[i].queries <= MaxQueries
              /\ api_usage' = r.usage
              /\ last' = [op |-> "increment_usage", key |-> id[1], email |-> id[2],
                          faults |-> F, ret |-> r.ret, before |-> UsageOf(id[1]),
                          now |-> clock]
    /\ UNCHANGED <<Gateway, Aside, clock, wp_users, session>>
    /\ Fits

\* The limits a caller passes, or none.
Limits == {<<>>} \cup {<<n>> : n \in 0..MaxQueries}

Do_check_usage_limit ==
    /\ \E id \in Identities, limit \in Limits, F \in ReadFaults :
       \E pick \in Picks(id[1]) :
          \E r \in {check_usage_limit(api_usage, id[1], id[2], limit, F, pick)} :
              /\ api_usage' = r.usage
              /\ last' = [op |-> "check_usage_limit", key |-> id[1], email |-> id[2],
                          limit |-> limit, faults |-> F, ret |-> r.ret,
                          before |-> UsageOf(id[1])]
    /\ UNCHANGED <<Gateway, Aside, clock, wp_users, session>>
    /\ Fits

\* Records handed to the synchronisers: the one the token path assembles
\* (user id), the one the customer path assembles (customer id), one with both
\* ids and one with neither.
UserData(email, shape) ==
    [wp_user_id |-> IF shape \in {"token", "both"} THEN GwWpUserId(email) ELSE 0,
     wc_customer_id |-> IF shape \in {"customer", "both"} THEN GwCustomerId(email) ELSE 0,
     email |-> email,
     wp_token |-> IF shape \in {"token", "both"} THEN Token(email) ELSE NoToken,
     purchased_products |-> ExtractProducts(gw_orders[email]),
     product_access |-> TRUE]

Shapes == {"token", "customer", "both", "email"}

\* The synchronisers are applied to the records of one person.
SyncEmails == {"ann@x"}

\* How many rows each lookup column matches for a record.
Columns == {"wp_user_id", "wc_customer_id", "email"}

MatchCounts(user_data) ==
    [c \in Columns |-> Cardinality(Matching(wp_users, c, user_data[c]))]

\* run: 2 when the previous call applied the same record with success, else
\* 1; first: the match counts found by the first call of such a run.
Do_sync_woo_product_user ==
    /\ \E email \in SyncEmails, shape \in Shapes, F \in SyncFaults :
          \E user_data \in {UserData(email, shape)} :
          \E r \in {sync_woo_product_user(wp_users, api_usage, user_data, F)} :
          \E again \in {/\ last.op = "sync_woo_product_user"
                        /\ last.user_data = user_data
                        /\ last.ret} :
              /\ wp_users' = r.users
              /\ api_usage' = r.usage
              /\ last' = [op |-> "sync_woo_product_user", user_data |-> user_data,
                          ret |-> r.ret,
                          run |-> IF again THEN 2 ELSE 1,
                          first |-> IF again THEN last.first ELSE MatchCounts(user_data)]
    /\ UNCHANGED <<Gateway, Aside, clock, session>>
    /\ Fits

Do_sync_wp_user_to_supabase ==
    /\ \E email \in SyncEmails, F \in OneOf({"users_select", "users_write", "usage_insert"}) :
          \E user_data \in {[wp_user_id |-> GwWpUserId(email), email |-> email,
                              wp_token |-> Token(email)]} :
          \E r \in {sync_wp_user_to_supabase(wp_users, api_usage, user_data, F)} :
              /\ wp_users' = r.users
              /\ api_usage' = r.usage
              /\ last' = [op |-> "sync_wp_user_to_supabase", user_data |-> user_data,
                          ret |-> r.ret]
    /\ UNCHANGED <<Gateway, Aside, clock, session>>
    /\ Fits

\* The three resolver functions read the gateway and change nothing: one
\* application per behaviour (last = NoCall) reaches every result.
Do_get_user_purchased_products ==
    /\ last = NoCall
    /\ \E email \in LookupEmails, m \in ResolverModes :
          \E r \in {get_user_purchased_products_outcome(email, m[1], m[2])} :
          last' = [op |-> "get_user_purchased_products", email |-> email,
                   cmode |-> m[1], omode |-> m[2],
                   raised |-> r.raised, ret |-> r.value]
    /\ UNCHANGED <<Gateway, Aside, Store>>

Do_check_product_access ==
    /\ last = NoCall
    /\ \E email \in ResolverEmails, required \in RequiredLists, m \in ResolverModes :
          last' = [op |-> "check_product_access", email |-> email, required |-> required,
                   cmode |-> m[1], omode |-> m[2],
                   ret |-> check_product_access(email, required, m[1], m[2])]
    /\ UNCHANGED <<Gateway, Aside, Store>>

Do_get_user_product_access_level ==
    /\ last = NoCall
    /\ \E email \in ResolverEmails, m \in ResolverModes :
          last' = [op |-> "get_user_product_access_level", email |-> email,
                   cmode |-> m[1], omode |-> m[2],
                   ret |-> get_user_product_access_level(email, m[1], m[2])]
    /\ UNCHANGED <<Gateway, Aside, Store>>

----------------------------------------------------------------------------
(* The order mirror *)

\* The order mirror.  The synchroniser that writes wc_orders is not among
\* the sources (database.py declares the table and reads it); upsertOrder is
\* taken from the specification: lookup by external order id, update in place
\* if present, else insert, the synced-at time set by every call.
OrderIds == {1, 2}

OrderPayloads ==
    [wc_order_id : OrderIds, wp_user_id : {1}, status : {"processing", "completed"},
     total : Totals]

OrderRow(order, t) ==
    [wc_order_id |-> order.wc_order_id, wp_user_id |-> order.wp_user_id,
     status |-> order.status, total |-> order.total, synced_at |-> t]

OrderUpsertAlwaysInsert(orders, order) == Append(orders, OrderRow(order, Now))

OrderUpsert(orders, order) ==
    LET existing == Matching(orders, "wc_order_id", order.wc_order_id)
    IN  IF existing # {}
        THEN [i \in DOMAIN orders |->
                 IF i \in existing THEN OrderRow(order, Now) ELSE orders[i]]
        ELSE Append(orders, OrderRow(order, Now))

upsert_order(orders, order, F) ==
    IF ~supabase THEN [ret |-> FALSE, orders |-> orders]
    ELSE IF F # {} THEN [ret |-> FALSE, orders |-> orders]
    ELSE [ret |-> TRUE, orders |-> OrderUpsert(orders, order)]

\* run: 2 when the previous call applied the same payload with success, else
\* 1; after_first: the table the first call of such a run left.
Do_upsert_order ==
    /\ \E order \in OrderPayloads, F \in OneOf({"orders_select", "orders_write"}) :
          \E r \in {upsert_order(wc_orders, order, F)} :
          \E again \in {/\ last.op = "upsert_order"
                        /\ last.order = order
                        /\ last.ret} :
              /\ wc_orders' = r.orders
              /\ last' = [op |-> "upsert_order", order |-> order, ret |-> r.ret,
                          run |-> IF again THEN 2 ELSE 1,
                          after_first |-> IF again THEN last.after_first ELSE r.orders]
    /\ UNCHANGED <<Gateway, Store, inflight>>

----------------------------------------------------------------------------
(* Overlapping sessions of one identity.  Streamlit runs each session's    *)
(* script in its own thread; every store request is one step, and the      *)
(* requests of two sessions interleave.                                    *)

\* The identity both sessions belong to.
SharedEmail == "ann@x"

SharedKey == GwWpUserId(SharedEmail)

\* The record the synchronisers are given for it after a token login.
SharedUserData ==
    [wp_user_id |-> SharedKey, wc_customer_id |-> 0, email |-> SharedEmail,
     wp_token |-> Token(SharedEmail), purchased_products |-> <<>>,
     product_access |-> TRUE]

SessionOps ==
    {"get_user_usage", "initialize_user_usage", "increment_usage",
     "sync_woo_product_user", "sync_wp_user_to_supabase"}

\* The first store request of a call.
FirstRequest(op) ==
    IF op \in {"get_user_usage", "increment_usage"} THEN "usage_read"
    ELSE IF op = "initialize_user_usage" THEN "usage_select"
    ELSE "users_select"

\* A call of session s at request pc: current is what get_user_usage
\* returned to increment_usage, existing is existing.data of the wp_users
\* lookup, raced holds when the latest update written while this call stood
\* between its read and its update came from a call that had read the same
\* value.
At(call, pc) == [call EXCEPT !.pc = pc]

Idle == [pc |-> "idle"]

\* last is the increment_usage that returned in the step just taken, if any.
Incremented(s, ret) ==
    [op |-> "increment_usage", session |-> s, ret |-> ret,
     current |-> inflight[s].current, raced |-> inflight[s].raced]

\* A session without a call in flight starts one.
Call(s) ==
    /\ supabase
    /\ inflight[s].pc = "idle"
    /\ \E op \in SessionOps :
          inflight' = [inflight EXCEPT ![s] =
                          [pc |-> FirstRequest(op), op |-> op, current |-> 0,
                           existing |-> FALSE, raced |-> FALSE]]
    /\ last' = NoCall
    /\ UNCHANGED <<Gateway, Store, wc_orders>>

\* get_user_usage has its value: increment_usage goes on to the update.
GotUsage(s, value) ==
    IF inflight[s].op = "increment_usage"
    THEN /\ inflight' = [inflight EXCEPT ![s] =
                            [inflight[s] EXCEPT !.pc = "usage_update", !.current = value]]
         /\ last' = NoCall
    ELSE /\ inflight' = [inflight EXCEPT ![s] = Idle]
         /\ last' = NoCall

\* database.py:34-43: the select of get_user_usage.
usage_read(s) ==
    /\ inflight[s].pc = "usage_read"
    /\ \/ GotUsage(s, 0)                                  \* the request raises
       \/ /\ Matching(api_usage, "wp_user_id", SharedKey) # {}
          /\ \E pick \in Matching(api_usage, "wp_user_id", SharedKey) :
                GotUsage(s, api_usage[pick].queries)
       \/ /\ Matching(api_usage, "wp_user_id", SharedKey) = {}
          /\ inflight' = [inflight EXCEPT ![s] = At(inflight[s], "usage_select")]
          /\ last' = NoCall
    /\ UNCHANGED <<Gateway, Store, wc_orders>>

\* initialize_user_usage is over: its caller goes on.
Initialized(s) ==
    IF inflight[s].op \in {"get_user_usage", "increment_usage"}
    THEN GotUsage(s, 0)
    ELSE /\ inflight' = [inflight EXCEPT ![s] = Idle]
         /\ last' = NoCall

\* database.py:12-14: the select of initialize_user_usage.
usage_select(s) ==
    /\ inflight[s].pc = "usage_select"
    /\ \/ Initialized(s)                           \* the request raises
       \/ /\ Matching(api_usage, "wp_user_id", SharedKey) # {}
          /\ Initialized(s)
       \/ /\ Matching(api_usage, "wp_user_id", SharedKey) = {}
          /\ inflight' = [inflight EXCEPT ![s] = At(inflight[s], "usage_insert")]
          /\ last' = NoCall
    /\ UNCHANGED <<Gateway, Store, wc_orders>>

\* database.py:16-22: the insert of initialize_user_usage.
usage_insert(s) ==
    /\ inflight[s].pc = "usage_insert"
    /\ \/ /\ Initialized(s)                        \* the request raises
          /\ UNCHANGED api_usage
       \/ /\ Initialized(s)
          /\ api_usage' = Append(api_usage, UsageRow(SharedKey, SharedEmail))
    /\ UNCHANGED <<Gateway, clock, wp_users, session, wc_orders>>
    /\ Fits

\* Another session's increment stands between its read and its update.
InWindow(u) == inflight[u].pc = "usage_update"

\* database.py:52-57: the update of increment_usage.
usage_update(s) ==
    /\ inflight[s].pc = "usage_update"
    /\ \/ /\ UNCHANGED api_usage                          \* the request raises
          /\ inflight' = [inflight EXCEPT ![s] = Idle]
          /\ last' = Incremented(s, FALSE)
       \/ /\ api_usage' = UpdateQueries(api_usage, SharedKey, inflight[s].current)
          /\ \A i \in DOMAIN api_usage' : api_usage'[i].queries <= MaxQueries
          /\ inflight' = [u \in Sessions |->
                             IF u = s THEN Idle
                             ELSE IF InWindow(u)
                                  THEN [inflight[u] EXCEPT
                                           !.raced = inflight[u].current = inflight[s].current]
                                  ELSE inflight[u]]
          /\ last' = Incremented(s, TRUE)
    /\ UNCHANGED <<Gateway, clock, wp_users, session, wc_orders>>

\* woocommerce_sync.py:248-253, wordpress_auth.py:116: the lookup in wp_users.
users_select(s) ==
    /\ inflight[s].pc = "users_select"
    /\ \/ /\ inflight' = [inflight EXCEPT ![s] = Idle]   \* the request raises
          /\ last' = NoCall
       \/ /\ inflight' = [inflight EXCEPT ![s] =
                             [inflight[s] EXCEPT
                                 !.pc = "users_write",
                                 !.existing =
                                     Matching(wp_users, "wp_user_id", SharedKey) # {}]]
          /\ last' = NoCall
    /\ UNCHANGED <<Gateway, Store, wc_orders>>

\* woocommerce_sync.py:255-266, wordpress_auth.py:118-143: the update of or
\* the insert into wp_users.  sync_woo_product_user then calls
\* initialize_user_usage; sync_wp_user_to_supabase calls
\* initialize_user_usage_tracking when the lookup had found no row.
users_write(s) ==
    /\ inflight[s].pc = "users_write"
    /\ \/ /\ UNCHANGED wp_users                           \* the request raises
          /\ inflight' = [inflight EXCEPT ![s] = Idle]
          /\ last' = NoCall
       \/ /\ inflight[s].op = "sync_woo_product_user"
          /\ wp_users' = IF inflight[s].existing THEN UpdateUser(wp_users, SharedUserData)
                         ELSE InsertUser(wp_users, SharedUserData)
          /\ inflight' = [inflight EXCEPT ![s] = At(inflight[s], "usage_select")]
          /\ last' = NoCall
       \/ /\ inflight[s].op = "sync_wp_user_to_supabase"
          /\ wp_users' = IF inflight[s].existing THEN WpUpdateUser(wp_users, SharedUserData)
                         ELSE WpInsertUser(wp_users, SharedUserData)
          /\ IF inflight[s].existing
             THEN /\ inflight' = [inflight EXCEPT ![s] = Idle]
                  /\ last' = NoCall
             ELSE /\ inflight' = [inflight EXCEPT ![s] = At(inflight[s], "tracking_insert")]
                  /\ last' = NoCall
    /\ UNCHANGED <<Gateway, clock, api_usage, session, wc_orders>>
    /\ Fits

\* wordpress_auth.py:160-168: the insert of initialize_user_usage_tracking.
tracking_insert(s) ==
    /\ inflight[s].pc = "tracking_insert"
    /\ \/ UNCHANGED api_usage                             \* the request raises
       \/ api_usage' = Append(api_usage, UsageRow(SharedKey, SharedEmail))
    /\ inflight' = [inflight EXCEPT ![s] = Idle]
    /\ last' = NoCall
    /\ UNCHANGED <<Gateway, clock, wp_users, session, wc_orders>>
    /\ Fits

----------------------------------------------------------------------------
(* The ledger called for the user of the session *)

\* app.py:36-37: the email and the id of the session's user.
SessionIdentity == <<session.user[1].id, session.user[1].email>>

\* app.py:49: the dashboard reads the usage of the logged-in user.
Do_user_get_user_usage ==
    /\ session.user # <<>>
    /\ \E id \in {SessionIdentity}, F \in ReadFaults :
       \E pick \in Picks(id[1]) :
          \E r \in {get_user_usage(api_usage, id[1], id[2], F, pick)} :
              /\ api_usage' = r.usage
              /\ last' = [op |-> "get_user_usage", key |-> id[1], email |-> id[2],
                          faults |-> F, ret |-> r.ret]
    /\ UNCHANGED <<Gateway, Aside, clock, wp_users, session>>
    /\ Fits

\* A query of the logged-in user is counted.
Do_user_increment_usage ==
    /\ session.user # <<>>
    /\ \E id \in {SessionIdentity}, F \in IncrementFaults :
       \E pick \in Picks(id[1]) :
          \E r \in {increment_usage(api_usage, id[1], id[2], F, pick)} :
              /\ \A i \in DOMAIN r.usage : r.usage[i].queries <= MaxQueries
              /\ api_usage' = r.usage
              /\ last' = [op |-> "increment_usage", key |-> id[1], email |-> id[2],
                          faults |-> F, ret |-> r.ret, usage_before |-> api_usage]
    /\ UNCHANGED <<Gateway, Aside, clock, wp_users, session>>
    /\ Fits

----------------------------------------------------------------------------
(* Specifications *)

EmptyStore ==
    /\ clock = 1
    /\ wp_users = <<>>
    /\ api_usage = <<>>
    /\ session = EmptySession
    /\ wc_orders = <<>>
    /\ inflight = NoCalls
    /\ last = NoCall

\* The gateway of the session and synchroniser specifications: ann has the
\* scenario's completed orders, bob has none.
ScenarioGateway == [e \in Emails |-> IF e = "ann@x" THEN ScenarioOrders ELSE <<>>]

\* The dashboard's sessions: initialisation, the product-gated login and
\* logout.
Init ==
    /\ wp_config \in BOOLEAN
    /\ supabase \in BOOLEAN
    /\ gw_orders = ScenarioGateway
    /\ EmptyStore

Next ==
    \/ Do_initialize_auth_state
    \/ Do_login
    \/ Do_wp_jwt_login
    \/ Do_check_authentication
    \/ Do_logout

Spec == Init /\ [][Next]_vars

\* The usage ledger, called for the identities of the gateway.
InitLedger ==
    /\ wp_config = TRUE
    /\ supabase \in BOOLEAN
    /\ gw_orders = [e \in Emails |-> <<>>]
    /\ EmptyStore

NextLedger ==
    \/ Tick
    \/ Do_initialize_user_usage
    \/ Do_get_user_usage
    \/ Do_increment_usage
    \/ Do_check_usage_limit

SpecLedger == InitLedger /\ [][NextLedger]_vars

\* The synchronisers applied to user records.
InitSync ==
    /\ wp_config = TRUE
    /\ supabase \in BOOLEAN
    /\ gw_orders = ScenarioGateway
    /\ EmptyStore

NextSync ==
    \/ Tick
    \/ Do_sync_woo_product_user
    \/ Do_sync_wp_user_to_supabase

SpecSync == InitSync /\ [][NextSync]_vars

\* The entitlement resolver over the order lists the gateway may hold for
\* one customer: every list of at most MaxItems line items, and the long
\* purchase histories.
InitEntitlement ==
    /\ supabase = TRUE
    /\ \/ /\ wp_config = TRUE
          /\ \E k \in 0..MaxItems : \E s \in [1..k -> LineItems] :
             \E cuts \in SUBSET (1..(k - 1)) :
                gw_orders = [e \in Emails |->
                                IF e = "ann@x" THEN GroupOrders(s, cuts) ELSE <<>>]
       \/ /\ wp_config \in BOOLEAN
          /\ \E n \in 1..MaxBulk :
                gw_orders = [e \in Emails |-> IF e = "ann@x" THEN BulkOrders(n) ELSE <<>>]
    /\ EmptyStore

NextEntitlement ==
    \/ Do_get_user_purchased_products
    \/ Do_check_product_access
    \/ Do_get_user_product_access_level

SpecEntitlement == InitEntitlement /\ [][NextEntitlement]_vars

\* The order mirror under repeated synchronisation of orders.
InitOrders ==
    /\ wp_config = TRUE
    /\ supabase \in BOOLEAN
    /\ gw_orders = ScenarioGateway
    /\ EmptyStore

NextOrders ==
    \/ Tick
    \/ Do_upsert_order

SpecOrders == InitOrders /\ [][NextOrders]_vars

\* Two sessions of one identity run ledger and synchroniser calls against a
\* store that answers.
InitSessions ==
    /\ wp_config = TRUE
    /\ supabase = TRUE
    /\ gw_orders = ScenarioGateway
    /\ EmptyStore

NextSessions ==
    \E s \in Sessions :
        \/ Call(s)
        \/ usage_read(s)
        \/ usage_select(s)
        \/ usage_insert(s)
        \/ usage_update(s)
        \/ users_select(s)
        \/ users_write(s)
        \/ tracking_insert(s)

SpecSessions == InitSessions /\ [][NextSessions]_vars

\* One browser session that logs in through the product-gated login only.
NextLogins ==
    \/ Do_initialize_auth_state
    \/ Do_login
    \/ Do_logout

SpecLogins == Init /\ [][NextLogins]_vars

\* Two people with purchases use one browser in turn: each logs in through
\* either path, has queries counted and logs out.
InitPeople ==
    /\ wp_config = TRUE
    /\ supabase = TRUE
    /\ gw_orders = [e \in Emails |-> ScenarioOrders]
    /\ EmptyStore

NextPeople ==
    \/ Do_initialize_auth_state
    \/ Do_login_answered
    \/ Do_user_get_user_usage
    \/ Do_user_increment_usage
    \/ Do_logout

SpecPeople == InitPeople /\ [][NextPeople]_vars

----------------------------------------------------------------------------
(* Properties of the entitlement resolver, stated over the gateway's orders *)

\* The gateway answered both queries of a resolver call, the first with a
\* customer record.
Answered(call) ==
    /\ wp_config
    /\ call.cmode = "ok"
    /\ GwCustomers(call.email) # <<>>
    /\ call.omode = "ok"

\* The line items of a customer's completed orders, as <<order, position>>,
\* in the order the gateway returns them.
Items(email) ==
    UNION {{<<o, j>> : j \in DOMAIN gw_orders[email][o].line_items} :
              o \in DOMAIN gw_orders[email]}

ItemAt(email, p) == gw_orders[email][p[1]].line_items[p[2]]

Earlier(p, q) == p[1] < q[1] \/ (p[1] = q[1] /\ p[2] < q[2])

ItemsOf(email, pid) == {p \in Items(email) : ItemAt(email, p).product_id = pid}

FirstOf(email, pid) ==
    CHOOSE p \in ItemsOf(email, pid) : \A q \in ItemsOf(email, pid) : p = q \/ Earlier(p, q)

AllProductIds(email) == {ItemAt(email, p).product_id : p \in Items(email)}

\* Product id 0 stands for a line item without a product id (absent or 0).
ProductIds(email) == AllProductIds(email) \ {0}

\* The purchase count of a resolver call: the distinct products when the
\* gateway answered, none otherwise.
PurchaseCount(call) ==
    IF Answered(call) THEN Cardinality(ProductIds(call.email)) ELSE 0

\* The list ret holds exactly one entry for each id of pids, the entry of
\* the id's first line item.
OneEntryPerId(ret, email, pids) ==
    /\ \A i \in DOMAIN ret : \A j \in DOMAIN ret :
          ret[i].product_id = ret[j].product_id => i = j
    /\ {ret[i].product_id : i \in DOMAIN ret} = pids
    /\ \A i \in DOMAIN ret :
          ret[i].product_id \in AllProductIds(email) =>
             LET p == FirstOf(email, ret[i].product_id)
             IN  /\ ret[i].total = ItemAt(email, p).total
                 /\ ret[i].order_id = gw_orders[email][p[1]].id

\* C3: the access tier is "none" for 0 purchases, "basic" for 1 or 2,
\* "premium" for 3 or 4, "enterprise" for 5 or more, the purchase count being
\* the number of distinct products of the customer's completed orders (0 when
\* the gateway does not answer).
C3_TierByCount ==
    last.op = "get_user_product_access_level" =>
        LET n == PurchaseCount(last)
        IN  /\ n = 0 => last.ret.access_level = "none"
            /\ n \in {1, 2} => last.ret.access_level = "basic"
            /\ n \in {3, 4} => last.ret.access_level = "premium"
            /\ n >= 5 => last.ret.access_level = "enterprise"
            /\ Len(last.ret.products) = n

\* A customer with five or more products was rated.
C3_Witness ==
    /\ last.op = "get_user_product_access_level"
    /\ PurchaseCount(last) >= 5
    /\ last.ret.access_level = "enterprise"

\* C4 as stated: the purchase list holds no product id twice, holds one entry
\* for each product id that appears in any line item, and the entry kept is
\* the first occurrence.
C4_EveryProductId ==
    (last.op = "get_user_purchased_products" /\ Answered(last)) =>
        OneEntryPerId(last.ret, last.email, AllProductIds(last.email))

\* C4 amended: the purchase list holds no product id twice, holds one entry
\* for each non-zero product id that appears in any line item (a line item
\* whose product id is absent or 0 is skipped), and the entry kept is the
\* first occurrence in the gateway's order.
C4_EveryNonZeroProductId ==
    (last.op = "get_user_purchased_products" /\ Answered(last)) =>
        OneEntryPerId(last.ret, last.email, ProductIds(last.email))

\* A product bought twice at different prices was resolved.
C4_Witness ==
    /\ last.op = "get_user_purchased_products"
    /\ Answered(last)
    /\ \E pid \in ProductIds(last.email) :
          \E p \in ItemsOf(last.email, pid), q \in ItemsOf(last.email, pid) :
              /\ Earlier(p, q)
              /\ ItemAt(last.email, p).total # ItemAt(last.email, q).total
    /\ last.ret # <<>>

\* Hundredths of the two prices of the model.
Amount(total) == IF total = T2000 THEN 2000 ELSE 1500

\* The sum of the values of a function with a finite domain.
RECURSIVE FnSum(_)
FnSum(f) ==
    IF DOMAIN f = {} THEN 0
    ELSE LET x == CHOOSE y \in DOMAIN f : TRUE
         IN  f[x] + FnSum([y \in DOMAIN f \ {x} |-> f[y]])

\* C5: the total spent is the sum of the totals of the kept (first) line
\* items, one per distinct product, never of the dropped duplicates; for the
\* orders of the scenario (product 1 in two orders at 20.00, product 2 once at
\* 15.00) the list has length 2, the total is 35 and the tier is "basic".
C5_TotalOfKept ==
    (last.op = "get_user_product_access_level" /\ PurchaseCount(last) > 0) =>
        LET KeptAmount == [pid \in ProductIds(last.email) |->
                              Amount(ItemAt(last.email, FirstOf(last.email, pid)).total)]
        IN  /\ last.ret.total_spent = FnSum(KeptAmount)
            /\ last.ret.product_count = Cardinality(ProductIds(last.email))
            /\ gw_orders[last.email] = ScenarioOrders =>
                  /\ Len(last.ret.products) = 2
                  /\ last.ret.total_spent = 3500
                  /\ last.ret.access_level = "basic"

\* The scenario's customer was rated.
C5_Witness ==
    /\ last.op = "get_user_product_access_level"
    /\ Answered(last)
    /\ gw_orders[last.email] = ScenarioOrders
    /\ last.ret.total_spent = 3500

\* The required ids a check_product_access call names.
RequiredIds(call) == {call.required.ids[i] : i \in DOMAIN call.required.ids}

PurchasedIds(call) == IF Answered(call) THEN ProductIds(call.email) ELSE {}

\* C6 as stated: with a list of required ids, an empty list included,
\* check_product_access is true iff a required id was purchased; with None
\* it is true iff something was purchased.
C6_EmptyListIntersects ==
    last.op = "check_product_access" =>
        (last.ret <=> IF last.required.is_none
                      THEN PurchasedIds(last) # {}
                      ELSE RequiredIds(last) \cap PurchasedIds(last) # {})

\* C6 amended: with a non-empty list of required ids check_product_access is
\* true iff a required id was purchased; with None or an empty list it is
\* true iff something was purchased.
C6_EmptyListAsNone ==
    last.op = "check_product_access" =>
        (last.ret <=> IF last.required.is_none \/ last.required.ids = <<>>
                      THEN PurchasedIds(last) # {}
                      ELSE RequiredIds(last) \cap PurchasedIds(last) # {})

\* A customer with purchases was checked against an empty list.
C6_Witness ==
    /\ last.op = "check_product_access"
    /\ ~last.required.is_none
    /\ last.required.ids = <<>>
    /\ PurchasedIds(last) # {}
    /\ last.ret

----------------------------------------------------------------------------
(* Properties of the product-gated login *)

\* The last call was a login whose token request was accepted and whose
\* profile was fetched, for an email whose purchase list is empty: no
\* completed order names a product, or the gateway did not answer the
\* resolver.
TokenLoginWithoutPurchases ==
    /\ last.op = "login"
    /\ wp_config
    /\ last.password = "right"
    /\ last.modes.token = "ok"
    /\ last.modes.me = "ok"
    /\ \/ last.modes.customers # "ok"
       \/ last.modes.orders # "ok"
       \/ ProductIds(last.email) = {}

\* C1: a login whose token is accepted and whose profile is fetched, for an
\* email with zero purchases, is denied: it returns None, leaves the session
\* without a user or token, and writes nothing to the store.
C1_ZeroPurchasesDenied ==
    TokenLoginWithoutPurchases =>
        /\ last.ret = <<>>
        /\ session = last.session_before
        /\ session.user = <<>>
        /\ session.access_token = NoToken
        /\ last.writes = <<>>
        /\ wp_users = last.users_before
        /\ api_usage = last.usage_before

\* bob, who bought nothing, gave the right password to a gateway that
\* answered everything, after another user was synchronised.
C1_Witness ==
    /\ TokenLoginWithoutPurchases
    /\ last.email = "bob@x"
    /\ last.modes.customers = "ok"
    /\ last.modes.orders = "ok"
    /\ wp_users # <<>>
    /\ last.ret = <<>>

\* C2: when login has just set the session user, the upsert of that user's
\* record returned True (and the record is in wp_users); when the upsert
\* returned False, login returned None and the session is as it was.
C2_SessionOnlyAfterSync ==
    last.op = "login" =>
        /\ session.user # <<>> =>
              /\ last.sync = <<TRUE>>
              /\ \E i \in DOMAIN wp_users :
                    /\ wp_users[i].email = session.user[1].email
                    /\ wp_users[i].purchased_products = session.user[1].purchased_products
                    /\ \/ wp_users[i].wp_user_id = session.user[1].id
                       \/ wp_users[i].wc_customer_id = session.user[1].id
        /\ last.sync = <<FALSE>> =>
              /\ last.ret = <<>>
              /\ session = last.session_before

\* A login has just set the session user.
C2_Witness ==
    /\ last.op = "login"
    /\ last.session_before.user = <<>>
    /\ session.user # <<>>
    /\ last.sync = <<TRUE>>

----------------------------------------------------------------------------
(* Properties of the usage ledger *)

\* The last call's store requests were all answered.
StoreAnswered == supabase /\ last.faults = {}

\* The counter the store holds for the key of the last call, before the
\* call: 0 for a key without a record.
StoredCounter == IF last.before = <<>> THEN 0 ELSE last.before[1].queries

\* C7: get_user_usage on a key with no record creates exactly one record with
\* counter 0 and returns 0; a second call on the same key returns 0 again,
\* creates nothing and leaves the key with one record.  (Calls whose store
\* requests are answered.)
C7_LazyCreation ==
    (last.op = "get_user_usage" /\ StoreAnswered) =>
        /\ last.before = <<>> =>
              /\ last.ret = 0
              /\ Len(UsageOf(last.key)) = 1
              /\ UsageOf(last.key)[1].queries = 0
              /\ UsageOf(last.key)[1].email = last.email
        /\ last.again =>
              /\ last.ret = 0
              /\ Len(last.before) = 1
              /\ UsageOf(last.key) = last.before

\* The second of two calls on a key that had no record has returned.
C7_Witness ==
    /\ last.op = "get_user_usage"
    /\ StoreAnswered
    /\ last.again
    /\ last.ret = 0
    /\ Len(UsageOf(last.key)) = 1

\* C8: one increment_usage call on an identity whose stored counter is N
\* leaves the counter at N+1 and a last-query time not earlier than the one
\* before, and returns True.  (Calls whose store requests are answered.)
C8_IncrementByOne ==
    (last.op = "increment_usage" /\ StoreAnswered /\ Len(last.before) <= 1) =>
        /\ last.ret
        /\ Len(UsageOf(last.key)) = 1
        /\ UsageOf(last.key)[1].queries = StoredCounter + 1
        /\ UsageOf(last.key)[1].last_query >=
              (IF last.before = <<>> THEN NoTime ELSE last.before[1].last_query)
        /\ UsageOf(last.key)[1].last_query = last.now

\* A counter that had been incremented before was incremented again, later.
C8_Witness ==
    /\ last.op = "increment_usage"
    /\ StoreAnswered
    /\ Len(last.before) = 1
    /\ StoredCounter >= 1
    /\ last.before[1].last_query # NoTime
    /\ UsageOf(last.key)[1].last_query > last.before[1].last_query
    /\ UsageOf(last.key)[1].queries = StoredCounter + 1

\* The limit of a check_usage_limit call, 30 when none is passed.
CheckedLimit == IF last.limit = <<>> THEN 30 ELSE last.limit[1]

\* C9 as stated: check_usage_limit returns true iff the counter held in the
\* store (0 without a record) is strictly less than the limit, the limit
\* defaulting to 30; it returns false whenever the stored counter is >= limit.
C9_StoredBelowLimit ==
    (last.op = "check_usage_limit" /\ Len(last.before) <= 1) =>
        (last.ret <=> StoredCounter < CheckedLimit)

\* C9 amended: check_usage_limit returns true iff the usage get_user_usage
\* reports is strictly less than the limit, the limit defaulting to 30: the
\* stored counter (0 without a record) when the store answers the read, and 0
\* when the store is not configured or the read fails.  It returns false
\* whenever the stored counter is >= limit and the read is answered.
C9_ReportedBelowLimit ==
    (last.op = "check_usage_limit" /\ Len(last.before) <= 1) =>
        LET reported == IF supabase /\ "usage_read" \notin last.faults
                        THEN StoredCounter ELSE 0
        IN  last.ret <=> reported < CheckedLimit

\* A counter that has reached the limit passed was refused.
C9_Witness ==
    /\ last.op = "check_usage_limit"
    /\ StoreAnswered
    /\ last.limit # <<>>
    /\ StoredCounter >= 1
    /\ StoredCounter = CheckedLimit
    /\ ~last.ret

----------------------------------------------------------------------------
(* Properties of the synchroniser *)

\* The column sync_woo_product_user is to look a record up by: the user id
\* when it has one, else the customer id when it has one, else the email.
KeyColumn(user_data) ==
    IF user_data.wp_user_id # 0 THEN "wp_user_id"
    ELSE IF user_data.wc_customer_id # 0 THEN "wc_customer_id"
    ELSE "email"

KeyRows(users, user_data) ==
    Matching(users, KeyColumn(user_data), user_data[KeyColumn(user_data)])

\* The row holds the record's fields.
Holds(row, user_data) ==
    /\ row.wp_user_id = user_data.wp_user_id
    /\ row.wc_customer_id = user_data.wc_customer_id
    /\ row.email = user_data.email
    /\ row.wp_token = user_data.wp_token
    /\ row.purchased_products = user_data.purchased_products
    /\ row.product_access = user_data.product_access

\* A step that is a successful sync_woo_product_user call.
SyncStep ==
    /\ last'.op = "sync_woo_product_user"
    /\ last'.ret
    /\ <<last, wp_users>>' # <<last, wp_users>>

\* The step updates the rows found under the record's key in place, keeping
\* their creation times, or, when there is none, inserts one row created now.
UpsertStep ==
    LET user_data == last'.user_data
        found == KeyRows(wp_users, user_data)
    IN  IF found # {}
        THEN /\ Len(wp_users') = Len(wp_users)
             /\ \A i \in DOMAIN wp_users :
                   IF i \in found
                   THEN /\ Holds(wp_users'[i], user_data)
                        /\ wp_users'[i].created_at = wp_users[i].created_at
                        /\ wp_users'[i].last_login = clock
                   ELSE wp_users'[i] = wp_users[i]
        ELSE /\ Len(wp_users') = Len(wp_users) + 1
             /\ SubSeq(wp_users', 1, Len(wp_users)) = wp_users
             /\ Holds(wp_users'[Len(wp_users')], user_data)
             /\ wp_users'[Len(wp_users')].created_at = clock
             /\ wp_users'[Len(wp_users')].last_login = clock

\* After one or more successful applications of the same record, begun with
\* at most one row under its key, exactly one row is under its key.
OneRowAfterSync ==
    (/\ last.op = "sync_woo_product_user"
     /\ last.ret
     /\ last.first[KeyColumn(last.user_data)] <= 1) =>
        Cardinality(KeyRows(wp_users, last.user_data)) = 1

\* C10: sync_woo_product_user looks the record up by user id if present,
\* else by customer id if present, else by email; it updates the row it
\* finds in place, or inserts a new row with a creation time when it finds
\* none; applying it to the same record again leaves exactly one row for
\* that identifier.
C10_UpsertByPriority == []OneRowAfterSync /\ [][SyncStep => UpsertStep]_vars

\* The same record was applied twice in a row and updated, at a later time,
\* the row the first application inserted.
C10_Witness ==
    /\ last.op = "sync_woo_product_user"
    /\ last.ret
    /\ last.run = 2
    /\ last.first[KeyColumn(last.user_data)] = 0
    /\ \E i \in KeyRows(wp_users, last.user_data) :
          wp_users[i].created_at < wp_users[i].last_login
    /\ Cardinality(KeyRows(wp_users, last.user_data)) = 1

----------------------------------------------------------------------------
(* Properties of the order mirror *)

\* A row with its synced-at time blanked.
Unsynced(row) == [row EXCEPT !.synced_at = NoTime]

\* C11: upserting the same order payload twice yields exactly one wc_orders
\* record for that external order id, and only the synced-at time differs
\* between the table after the first and after the second call.
C11_OrderUpsertIdempotent ==
    (last.op = "upsert_order" /\ last.ret) =>
        /\ Cardinality(Matching(wc_orders, "wc_order_id", last.order.wc_order_id)) = 1
        /\ last.run = 2 =>
              /\ Len(wc_orders) = Len(last.after_first)
              /\ \A i \in DOMAIN wc_orders :
                    /\ Unsynced(wc_orders[i]) = Unsynced(last.after_first[i])
                    /\ wc_orders[i].synced_at >= last.after_first[i].synced_at

\* The same payload was upserted twice, the second time later, next to the
\* record of another order.
C11_Witness ==
    /\ last.op = "upsert_order"
    /\ last.ret
    /\ last.run = 2
    /\ Len(wc_orders) = 2
    /\ \E i \in DOMAIN wc_orders :
          /\ wc_orders[i].wc_order_id = last.order.wc_order_id
          /\ wc_orders[i].synced_at > last.after_first[i].synced_at

----------------------------------------------------------------------------
(* Properties of the session *)

\* C12: after logout every session field holding the identity or a token is
\* empty, whichever login routine (login or wp_jwt_login) populated the
\* session: no value written at login survives logout.
C12_LogoutClearsAll ==
    last.op = "logout" =>
        /\ session.user = <<>>
        /\ session.access_token = NoToken
        /\ session.wp_token = NoToken

C14_InitializeOnce ==
    last.op = "initialize_auth_state" =>
        /\ SessionKeys \subseteq session.keys
        /\ IF "user" \in last.session_before.keys
           THEN session.user = last.session_before.user
           ELSE session.user = <<>>
        /\ IF "access_token" \in last.session_before.keys
           THEN session.access_token = last.session_before.access_token
           ELSE session.access_token = NoToken

\* initialize_auth_state ran in a session that held a user and a token.
C14_Witness ==
    /\ last.op = "initialize_auth_state"
    /\ last.session_before.user # <<>>
    /\ last.session_before.access_token # NoToken
    /\ session.user = last.session_before.user
    /\ session.access_token = last.session_before.access_token

----------------------------------------------------------------------------
(* Failure handling of the entitlement resolver *)

\* C15: get_user_purchased_products never raises: without configuration,
\* when no customer matches the email, when the customer or the order query
\* returns a non-200 status, and when a gateway call throws, it returns the
\* empty list.
C15_ResolverNeverRaises ==
    last.op = "get_user_purchased_products" =>
        /\ ~last.raised
        /\ (\/ ~wp_config
            \/ GwCustomers(last.email) = <<>>
            \/ last.cmode # "ok"
            \/ last.omode # "ok") => last.ret = <<>>

\* The orders query threw for a customer who has completed orders.
C15_Witness ==
    /\ last.op = "get_user_purchased_products"
    /\ wp_config
    /\ last.cmode = "ok"
    /\ last.omode = "exc"
    /\ GwCustomers(last.email) # <<>>
    /\ ProductIds(last.email) # {}
    /\ ~last.raised
    /\ last.ret = <<>>

----------------------------------------------------------------------------
(* The customer-only login path *)

\* The last call was a login whose token request was answered with a
\* non-success status: the gateway refused, or the password was wrong.
TokenRefused ==
    /\ last.op = "login"
    /\ wp_config
    /\ last.modes.token # "exc"
    /\ ~(last.modes.token = "ok" /\ last.password = "right")

\* The purchase list of the last login's email is empty.
NoPurchaseList ==
    \/ last.modes.customers # "ok"
    \/ last.modes.orders # "ok"
    \/ ProductIds(last.email) = {}

\* C16: when the token request returns a non-success status, login takes the
\* customer-only path; it ends with a session user only if the purchase list
\* is non-empty and the customers query returned a matching record; when the
\* purchase list is empty it is denied, the session is as it was (no user, no
\* token) and nothing is written to the store.
C16_CustomerOnlyPath ==
    TokenRefused =>
        /\ last.path = "customer"
        /\ session.user # <<>> =>
              /\ ~NoPurchaseList
              /\ last.purchased # <<>>
              /\ last.modes.customer = "ok"
              /\ GwCustomers(last.email) # <<>>
              /\ session.user[1].id = GwCustomers(last.email)[1].id
        /\ NoPurchaseList =>
              /\ last.ret = <<>>
              /\ session = last.session_before
              /\ session.user = <<>>
              /\ session.access_token = NoToken
              /\ last.writes = <<>>
              /\ wp_users = last.users_before
              /\ api_usage = last.usage_before

\* A customer with purchases gave a wrong password and was let in.
C16_Witness ==
    /\ TokenRefused
    /\ last.password = "wrong"
    /\ last.path = "customer"
    /\ ~NoPurchaseList
    /\ session.user # <<>>
    /\ last.writes # <<>>

----------------------------------------------------------------------------
(* Properties of the ledger under overlapping sessions *)

\* The ledger rows of the shared identity, as positions.
SharedRows == Matching(api_usage, "wp_user_id", SharedKey)

\* The increment that has just written had read N, and while it stood
\* between its read and its update another increment that had also read N
\* wrote.
TwoIncrementsFromSameCount ==
    /\ last.op = "increment_usage"
    /\ last.ret
    /\ last.raced

\* C17: increment_usage reads, then writes: when two increment_usage calls on
\* one identity have both read the counter N before either wrote, the stored
\* counter after both have written is N + 1 and not N + 2.
C17_LostUpdate ==
    TwoIncrementsFromSameCount =>
        \A i \in SharedRows :
            /\ api_usage[i].queries = last.current + 1
            /\ api_usage[i].queries # last.current + 2

\* Two increments of the identity's one record, both from N >= 1, left N + 1.
C17_Witness ==
    /\ TwoIncrementsFromSameCount
    /\ last.current >= 1
    /\ Len(api_usage) = 1
    /\ SharedRows = {1}
    /\ api_usage[1].queries = last.current + 1

\* C18: a stored usage counter is a non-negative integer, and no step of any
\* interleaving of get_user_usage, initialize_user_usage and increment_usage,
\* with store requests that may fail, takes it from a value to a smaller one.
C18_CounterNeverDecreases ==
    /\ [](\A i \in DOMAIN api_usage : api_usage[i].queries \in Nat)
    /\ [][\A i \in DOMAIN api_usage :
              /\ i \in DOMAIN api_usage'
              /\ api_usage'[i].queries >= api_usage[i].queries]_vars

\* C20: api_usage holds at most one record per identity key in every
\* reachable state, and no step removes a record, under any interleaving of
\* the ledger calls and the synchronisers' usage initialisation.
C20_OneRecordPerKey ==
    /\ [](\A i, j \in DOMAIN api_usage :
              api_usage[i].wp_user_id = api_usage[j].wp_user_id => i = j)
    /\ [][\A i \in DOMAIN api_usage :
              /\ i \in DOMAIN api_usage'
              /\ api_usage'[i].wp_user_id = api_usage[i].wp_user_id
              /\ api_usage'[i].created_at = api_usage[i].created_at]_vars

----------------------------------------------------------------------------
(* The lookup key across logins of one person *)

\* C19: every synchronisation of one person uses the same lookup key: after
\* any sequence of successful logins of that person through the token path
\* and the customer-only path, wp_users holds at most one row with the
\* person's email, and no later sync removes a row or blanks a key that a
\* previous sync stored in it.
C19_OneRowPerPerson ==
    /\ [](\A i, j \in DOMAIN wp_users :
              wp_users[i].email = wp_users[j].email => i = j)
    /\ [][\A i \in DOMAIN wp_users :
              /\ i \in DOMAIN wp_users'
              /\ wp_users[i].wp_user_id # 0 =>
                    wp_users'[i].wp_user_id = wp_users[i].wp_user_id
              /\ wp_users[i].wc_customer_id # 0 =>
                    wp_users'[i].wc_customer_id = wp_users[i].wc_customer_id]_vars

----------------------------------------------------------------------------
(* The password on the customer-only path *)

\* The passwords a login attempt may carry: the account's, and two others.
AttemptPasswords == Passwords \cup {"other"}

\* What a login with password p would have done in the state, and with the
\* gateway answers and store faults, of the last login.
OutcomeWith(p) ==
    woo_product_login(last.users_before, last.usage_before, last.email, p,
                      last.modes, last.faults)

\* The token request of the last login's gateway rejects password p.
Rejects(p) == last.modes.token # "exc" /\ ~TokenIssued(p, last.modes)

\* C21 as stated: a login whose credentials the token request rejected never
\* ends with a session user, and every other rejected password gives the
\* same outcome.
C21_RejectedNeverAuthenticated ==
    TokenRefused =>
        /\ session.user = <<>>
        /\ \A p \in AttemptPasswords :
              Rejects(p) => OutcomeWith(p).ret = last.ret

\* C21, amended: for one gateway and store state, every login attempt with
\* the same email whose password the token request rejects has the same
\* outcome as the last one, a rejected login: the same result, the same
\* tables and the same session.  The outcome on the customer-only path
\* depends on the email alone.
C21_PasswordIndependent ==
    TokenRefused =>
        \A p \in AttemptPasswords :
            Rejects(p) =>
                /\ OutcomeWith(p).ret = last.ret
                /\ OutcomeWith(p).path = "customer"
                /\ OutcomeWith(p).users = wp_users
                /\ OutcomeWith(p).usage = api_usage
                /\ login(last.session_before, last.email, OutcomeWith(p).ret) = session

\* A working gateway rejected the password, and the login set the session
\* user: a session without any accepted password.
C21_Witness ==
    /\ TokenRefused
    /\ last.modes.token = "ok"
    /\ last.password = "wrong"
    /\ Rejects("other")
    /\ last.ret # <<>>
    /\ session.user # <<>>
    /\ session.access_token = "woo_access"

----------------------------------------------------------------------------
(* Ledger keys of distinct people *)

\* The ledger keys the logins of the person with this email were given: the
\* key of each row a sync stored for the email.
KeysOf(email) ==
    {UserId(wp_users[i]) : i \in {j \in DOMAIN wp_users : wp_users[j].email = email}}

\* The last call counted a query of the logged-in user.
CountedQuery == last.op = "increment_usage"

====
